---- MODULE Spec2Model ----
(***************************************************************************)
(* Model of grapher.py: a sweep of input values over a radare2 debugging   *)
(* session per value, run on a concurrent.futures.ThreadPoolExecutor, the  *)
(* (input, output) points collected in the module-level list `points`,     *)
(* then printed sorted and plotted.                                        *)
(*                                                                         *)
(* Strings that carry numbers (str(value), hex(value)[2:], the debugger's  *)
(* hexadecimal replies) are sequences of digits, most significant first.   *)
(* The debugger is the session record: its command log, the cell at the    *)
(* input location (register or memory bytes) and the cell at the output    *)
(* location.                                                               *)
(***************************************************************************)
EXTENDS Integers, Sequences, FiniteSets, TLC

\* ------------------------------------------------------------- bounds
MaxThreads == 2      \* --threads is drawn from 1..MaxThreads
MaxValues == 3       \* sweep family: the range holds 1..MaxValues values
MaxLength == 2       \* width family: --input-length is drawn from 1..MaxLength
MaxFaults == 1       \* the debugger fails at most this many invocations

\* radare2's wB reads and writes one 64-bit word at the offset
WordBytes == 8

VARIABLES
    args_input, args_output, args_range,         \* grapher.py:28, args.*
    argpc,         \* position of the main thread in lines 28-59
    filename, start, stop,                       \* grapher.py:29-31
    bruteforce, output,                          \* grapher.py:32-41
    lower_bound, upper_bound, step, threads,     \* grapher.py:43-52
    input_file, input_length, output_length,     \* grapher.py:53-55
    commands, jump,                              \* grapher.py:56, 59
    bruteforceIsMem, outputIsMem,                \* grapher.py:33-41
    points,        \* grapher.py:62, list of <<value, result>>
    mainpc,        \* position of the main thread in lines 105-118
    submitted,     \* number of range items executor.map has submitted
    work_queue,    \* the executor's queue of work items (range indices)
    future,        \* state of the Future of each range item
    started,       \* the values execute() was called with, in call order
    worker,        \* the pool's threads: position in execute(), locals
    sessions,      \* the session r2pipe.open returned to each range item
    fill,          \* target's content of memory and registers at launch
    fault_budget,  \* how many invocations the debugger may fail in this run
    target,        \* what the target does between start and stop
    hung,          \* the range item whose run never reaches stop (0: none)
    printed,       \* what line 111 printed
    plotted,       \* the <<xs, ys>> line 118 handed to plt.scatter
    faults         \* per-value failures the main thread has retrieved

args == <<args_input, args_output, args_range>>
config == <<args, argpc, filename, start, stop, bruteforce, output,
            lower_bound, upper_bound, step, threads, input_file, input_length,
            output_length, commands, jump, bruteforceIsMem, outputIsMem>>
env == <<fill, fault_budget, target, hung>>
vars == <<config, points, mainpc, submitted, work_queue, future, started,
          worker, sessions, env, printed, plotted, faults>>

\* ------------------------------------------------------- pure helpers

\* faulty variant: a range that includes its upper bound
RECURSIVE PyRangeInclusive(_, _, _)
PyRangeInclusive(lo, hi, st) ==
    IF (st > 0 /\ lo <= hi) \/ (st < 0 /\ lo >= hi)
    THEN <<lo>> \o PyRangeInclusive(lo + st, hi, st)
    ELSE <<>>

\* range(lower_bound, upper_bound, step) of line 107, as a sequence
RECURSIVE PyRange(_, _, _)
PyRange(lo, hi, st) ==
    IF (st > 0 /\ lo < hi) \/ (st < 0 /\ lo > hi)
    THEN <<lo>> \o PyRange(lo + st, hi, st)
    ELSE <<>>

Values == PyRange(lower_bound, upper_bound, step)

\* digits of n >= 0 in base b, most significant first: str(n), hex(n)[2:]
RECURSIVE ToDigits(_, _)
ToDigits(n, b) ==
    IF n < b THEN <<n>> ELSE Append(ToDigits(n \div b, b), n % b)

\* the number a digit string denotes in base b: int(s, 16), the debugger's
\* reading of a numeric argument
RECURSIVE FromDigits(_, _)
FromDigits(s, b) ==
    IF s = <<>> THEN 0
    ELSE b * FromDigits(SubSeq(s, 1, Len(s) - 1), b) + s[Len(s)]

\* ---------------------------------- command-line text (lines 32-51)

\* a str is the sequence of its characters
DigitChars == <<"0", "1", "2", "3", "4", "5", "6", "7", "8", "9">>
IsDigit(c) == \E d \in 1..10 : DigitChars[d] = c
DigitOf(c) == (CHOOSE d \in 1..10 : DigitChars[d] = c) - 1

\* the text the user types for the integer n
IntText(n) ==
    LET digits == ToDigits(IF n < 0 THEN 0 - n ELSE n, 10)
        text == [k \in 1..Len(digits) |-> DigitChars[digits[k] + 1]]
    IN IF n < 0 THEN <<"-">> \o text ELSE text

\* s.strip(): blanks at both ends removed
RECURSIVE Strip(_)
Strip(s) ==
    IF s = <<>> THEN s
    ELSE IF Head(s) = " " THEN Strip(Tail(s))
    ELSE IF s[Len(s)] = " " THEN Strip(SubSeq(s, 1, Len(s) - 1))
    ELSE s

\* int(s): blanks stripped, an optional sign, then one digit or more;
\* anything else raises ValueError
int(s) ==
    LET t == Strip(s)
        signed == t # <<>> /\ Head(t) \in {"-", "+"}
        body == IF signed THEN Tail(t) ELSE t
        magnitude == FromDigits([k \in 1..Len(body) |-> DigitOf(body[k])], 10)
    IN IF body # <<>> /\ \A k \in 1..Len(body) : IsDigit(body[k])
       THEN [raises |-> FALSE,
             value |-> IF signed /\ Head(t) = "-" THEN 0 - magnitude ELSE magnitude]
       ELSE [raises |-> TRUE, value |-> 0]

\* s.split(sep) for a one-character separator
RECURSIVE split(_, _)
split(s, sep) ==
    IF \A k \in 1..Len(s) : s[k] # sep THEN <<s>>
    ELSE LET k == CHOOSE i \in 1..Len(s) :
                      s[i] = sep /\ \A j \in 1..(i - 1) : s[j] # sep
         IN <<SubSeq(s, 1, k - 1)>> \o split(SubSeq(s, k + 1, Len(s)), sep)

\* s.startswith("m[")
StartsWithM(s) == Len(s) >= 2 /\ s[1] = "m" /\ s[2] = "["

\* s[2:-1] and s[:-1]
Slice2ToLast(s) == SubSeq(s, 3, Len(s) - 1)
SliceToLast(s) == SubSeq(s, 1, Len(s) - 1)

\* lines 32-36 and 37-41: the location named by a descriptor
Location(text) ==
    IF StartsWithM(text) /\ text[Len(text)] = "]"
    THEN [isMem |-> TRUE, name |-> Slice2ToLast(text)]
    ELSE [isMem |-> FALSE, name |-> text]

\* the descriptor the user types for a location
Descriptor(isMem, name) == IF isMem THEN <<"m", "[">> \o name \o <<"]">> ELSE name

\* the step a range without a step is swept with (line 49)
DefaultStep == 1

\* lines 42-51: the bounds and the step a range text denotes; a subscript
\* out of range (IndexError) or a failed int() (ValueError) ends the run
ParsedRange(text) ==
    LET valueRange == split(text, ",")
        first == split(valueRange[1], "[")
        lower == int(first[2])
        upper == IF "]" \in {valueRange[2][k] : k \in 1..Len(valueRange[2])}
                 THEN int(SliceToLast(valueRange[2]))
                 ELSE int(valueRange[2])
        given == int(SliceToLast(valueRange[3]))
        failed(error) ==
            [raises |-> error, lower_bound |-> 0, upper_bound |-> 0, step |-> 0]
    IN IF Len(first) < 2 THEN failed("IndexError")
       ELSE IF lower.raises THEN failed("ValueError")
       ELSE IF Len(valueRange) < 2 THEN failed("IndexError")
       ELSE IF upper.raises THEN failed("ValueError")
       ELSE IF Len(valueRange) = 3 /\ given.raises THEN failed("ValueError")
       ELSE [raises |-> "", lower_bound |-> lower.value,
             upper_bound |-> upper.value,
             step |-> IF Len(valueRange) = 3 THEN given.value ELSE DefaultStep]

\* the range text the user types: "[lower,upper]" or "[lower,upper,step]"
RangeText(lower, upper, st, with_step) ==
    <<"[">> \o IntText(lower) \o <<",">> \o IntText(upper)
      \o (IF with_step THEN <<",">> \o IntText(st) ELSE <<>>) \o <<"]">>

\* ------------------------------------------- numbers and bytes

RECURSIVE Pow(_, _)
Pow(b, e) == IF e = 0 THEN 1 ELSE b * Pow(b, e - 1)

\* bitwise or of two naturals
RECURSIVE BitOr(_, _)
BitOr(a, b) ==
    IF a = 0 THEN b
    ELSE IF b = 0 THEN a
    ELSE 2 * BitOr(a \div 2, b \div 2) + (IF a % 2 = 1 \/ b % 2 = 1 THEN 1 ELSE 0)

\* byte i (1 = least significant) of the natural n
RECURSIVE ByteOf(_, _)
ByteOf(n, i) == IF i = 1 THEN n % 256 ELSE ByteOf(n \div 256, i - 1)

\* the unsigned little-endian number in the first w bytes of mem
RECURSIVE LittleEndian(_, _)
LittleEndian(mem, w) ==
    IF w = 0 THEN 0 ELSE LittleEndian(mem, w - 1) + mem[w] * Pow(256, w - 1)

\* sorted(points, key=lambda x: x[0]) of line 111: stable insertion by input
RECURSIVE InsertByInput(_, _)
InsertByInput(s, p) ==
    IF s = <<>> THEN <<p>>
    ELSE IF s[Len(s)][1] <= p[1] THEN Append(s, p)
    ELSE Append(InsertByInput(SubSeq(s, 1, Len(s) - 1), p), s[Len(s)])

RECURSIVE SortedByInput(_)
SortedByInput(s) ==
    IF s = <<>> THEN <<>>
    ELSE InsertByInput(SortedByInput(SubSeq(s, 1, Len(s) - 1)), s[Len(s)])

\* --------------------------------------------------- the debugged target

\* the function the target computes between the start and stop addresses:
\* "double" leaves 2 * in at the output location; "echo" is a target whose
\* output location is its input location, which it does not touch
F(x) == IF target = "echo" THEN x ELSE 2 * x

\* the bytes of a word holding the natural n, least significant first
Bytes(n) == [i \in 1..WordBytes |-> ByteOf(n, i)]

\* no session: r2pipe.open has not been called for the item
NoSession ==
    [open |-> FALSE, log |-> <<>>, reg |-> fill,
     mem |-> [i \in 1..WordBytes |-> fill], out |-> Bytes(fill)]

\* a session as r2pipe.open returns it: reg and mem are the register and
\* the memory word at the input location, out the word at the output location
NewSession ==
    [open |-> TRUE, log |-> <<"open">>, reg |-> fill,
     mem |-> [i \in 1..WordBytes |-> fill], out |-> Bytes(fill)]

\* radare2 `w0 n @addr`: n zero bytes written at the address
W0Effect(s, n) ==
    [s EXCEPT !.mem = [i \in 1..WordBytes |-> IF i <= n THEN 0 ELSE s.mem[i]]]

\* radare2 `wB 0x<digits> @addr`: the bits of the value are set in the word
\* at the address (the word is read, or-ed with the value, written back)
WBEffect(s, digits) ==
    [s EXCEPT !.mem = [i \in 1..WordBytes |->
        BitOr(s.mem[i], ByteOf(FromDigits(digits, 16), i))]]

\* radare2 `dr <reg> = <decimal digits>`
DrSetEffect(s, digits) == [s EXCEPT !.reg = FromDigits(digits, 10)]

\* what the target reads at its input location: the register, or the
\* input_length bytes of its variable
InputOf(s) ==
    IF bruteforceIsMem THEN LittleEndian(s.mem, input_length) ELSE s.reg

\* radare2 `dc` from the start position: the target runs to the stop
\* breakpoint and leaves F of its input at the output location
DcEffect(s) ==
    [s EXCEPT !.out =
        IF target = "echo" /\ bruteforceIsMem THEN s.mem ELSE Bytes(F(InputOf(s)))]

\* the reply to `pv<n> @addr`: the n-byte value at the address, in hex
PvReply(s, n) == ToDigits(LittleEndian(s.out, n), 16)

\* the reply to `dr <reg>`: the register's value, in hex
DrReply(s) == ToDigits(LittleEndian(s.out, 4), 16)

\* the session has run the commands cs, in their order
Logged(s, cs) == [s EXCEPT !.log = s.log \o cs]

\* ------------------------------------------------------ initial states

\* the threads the pool can hold; it starts at most max_workers of them
Threads == 1..MaxThreads

\* the command lines and environments the sweep is checked for.
\* Sweep: the range [0,2n,2] and the pool size vary, registers as locations.
SweepConfigs ==
    { [lower_bound |-> 0, upper_bound |-> 2 * n, step |-> 2, threads |-> t,
       input_file |-> "", input_length |-> 1, output_length |-> 1,
       commands |-> <<>>, jump |-> FALSE, bruteforceIsMem |-> FALSE,
       outputIsMem |-> FALSE, fill |-> 0, fault_budget |-> MaxFaults,
       target |-> "double"] :
      n \in 1..MaxValues, t \in 1..MaxThreads }

\* Scenario: the range [0,10,2] on every pool size, no debugger failure.
ScenarioConfigs ==
    { [lower_bound |-> 0, upper_bound |-> 10, step |-> 2, threads |-> t,
       input_file |-> "", input_length |-> 1, output_length |-> 1,
       commands |-> <<>>, jump |-> FALSE, bruteforceIsMem |-> FALSE,
       outputIsMem |-> FALSE, fill |-> 0, fault_budget |-> 0,
       target |-> "double"] :
      t \in 1..MaxThreads }

\* Protocol: every option that changes the driver's path, on the range [0,2].
ProtocolConfigs ==
    [lower_bound : {0}, upper_bound : {2}, step : {1}, threads : 1..MaxThreads,
     input_file : {"", "in.txt"}, input_length : {1}, output_length : {1},
     commands : {<<>>, <<"c1", "c2">>}, jump : BOOLEAN,
     bruteforceIsMem : BOOLEAN, outputIsMem : BOOLEAN, fill : {0},
     fault_budget : {MaxFaults}, target : {"double"}]

\* Width: the range [250,260,1], which spans the 1-byte boundary, a range
\* from 0 and one that spans the 2-byte boundary, injected into memory of
\* every width over zeroed and over set bytes.
WidthConfigs ==
  { c \in
    [lower_bound : {0, 250, 65534}, upper_bound : {3, 260, 65538},
     step : {1}, threads : {1},
     input_file : {""}, input_length : 1..MaxLength, output_length : {1, 2},
     commands : {<<>>}, jump : {FALSE}, bruteforceIsMem : {TRUE},
     outputIsMem : BOOLEAN, fill : {0, 255}, fault_budget : {0},
     target : {"double", "echo"}] :
    /\ c.target = "echo" => c.outputIsMem
    /\ <<c.lower_bound, c.upper_bound>> \in {<<0, 3>>, <<250, 260>>, <<65534, 65538>>} }

\* Invalid: ranges with lower >= upper or with a step that is not positive
InvalidConfigs ==
    { [lower_bound |-> r[1], upper_bound |-> r[2], step |-> r[3], threads |-> t,
       input_file |-> "", input_length |-> 1, output_length |-> 1,
       commands |-> <<>>, jump |-> FALSE, bruteforceIsMem |-> FALSE,
       outputIsMem |-> FALSE, fill |-> 0, fault_budget |-> 0,
       target |-> "double"] :
      r \in {<<4, 4, 1>>, <<4, 2, 1>>, <<0, 4, 0>>, <<4, 0, -2>>, <<0, 4, -1>>},
      t \in 1..MaxThreads }

Configs == SweepConfigs \cup ScenarioConfigs \cup ProtocolConfigs
           \cup WidthConfigs \cup InvalidConfigs

\* the names the locations are given by in every run of the sweep
InputName == <<"e", "a", "x">>
InputAddress == <<"r", "b", "p", "-", "0", "x", "8">>
OutputName == <<"e", "b", "x">>
OutputAddress == <<"r", "b", "p", "-", "0", "x", "4">>

\* the state after line 59 of the run whose command line denotes c
Configured(c) ==
    /\ args_input = Descriptor(c.bruteforceIsMem,
                               IF c.bruteforceIsMem THEN InputAddress ELSE InputName)
    /\ args_output = Descriptor(c.outputIsMem,
                                IF c.outputIsMem THEN OutputAddress ELSE OutputName)
    /\ args_range = RangeText(c.lower_bound, c.upper_bound, c.step, c.step # DefaultStep)
    /\ argpc = "parsed"
    /\ filename = "a.out"
    /\ start = "0x1139"
    /\ stop = "0x1150"
    /\ bruteforce = Location(args_input).name
    /\ output = Location(args_output).name
    /\ lower_bound = c.lower_bound
    /\ upper_bound = c.upper_bound
    /\ step = c.step
    /\ threads = c.threads
    /\ input_file = c.input_file
    /\ input_length = c.input_length
    /\ output_length = c.output_length
    /\ commands = c.commands
    /\ jump = c.jump
    /\ bruteforceIsMem = c.bruteforceIsMem
    /\ outputIsMem = c.outputIsMem
    /\ fill = c.fill
    /\ fault_budget = c.fault_budget
    /\ target = c.target

\* the state at line 62: nothing swept yet
Fresh ==
    /\ points = <<>>
    /\ mainpc = "map"
    /\ submitted = 0
    /\ work_queue = <<>>
    /\ future = [i \in 1..Len(Values) |-> "PENDING"]
    /\ started = <<>>
    /\ worker = [w \in Threads |->
                    [pc |-> "unborn", item |-> 0, value |-> 0, r |-> 0, result |-> 0]]
    /\ sessions = [i \in 1..Len(Values) |-> NoSession]
    /\ printed = <<>>
    /\ plotted = <<>>
    /\ faults = {}

\* every run of every debugger command returns
Init ==
    /\ \E c \in Configs : Configured(c)
    /\ hung = 0
    /\ Fresh

\* ------------------------------- parsing the arguments (lines 28-59)

MaxUpper == 6        \* bounds of the range text are drawn from -1..MaxUpper
MaxStep == 3         \* its step is drawn from -1..MaxStep

\* range texts of both forms, valid and invalid ranges among them
Lowers == -1..2
WellFormedRanges ==
    { RangeText(l, u, s, ws) :
        l \in Lowers, u \in -1..MaxUpper, s \in -1..MaxStep, ws \in BOOLEAN }

\* range texts that are not of the form "[lower,upper]" or "[lower,upper,step]"
MalformedRanges ==
    { <<"0", ",", "5", "]">>,
      <<"[", "0">>,
      <<"[", "0", ",", "5">>,
      <<"[", "0", ",", " ", "5", "]">>,
      <<"[", "x", ",", "5", "]">>,
      <<"[", "0", ",", "5", ",", "]">>,
      <<"[", "0", ",", "5", ",", "2">>,
      <<"[", "0", ",", "5", ",", "2", "1">>,
      <<"[", "0", ",", "5", ",", "2", ",", "3", "]">>,
      <<"[", "0", ",", "0", "x", "5", "]">> }

\* location descriptors: names, m[...] forms, unterminated and empty ones
Descriptors ==
    { InputName, Descriptor(TRUE, InputAddress), SliceToLast(Descriptor(TRUE, InputAddress)),
      <<"m", "[", "]">>, <<"m", "[">>, <<"m">>, <<>>, <<"e", "a", "x", "]">> }

\* the state at line 28: the arguments are read, nothing is parsed yet
InitArgs ==
    /\ args_input \in Descriptors
    /\ args_output \in {OutputName, Descriptor(TRUE, OutputAddress)}
    /\ args_range \in WellFormedRanges \cup MalformedRanges
    /\ argpc = "input"
    /\ filename = "a.out"
    /\ start = "0x1139"
    /\ stop = "0x1150"
    /\ bruteforce = <<>>
    /\ output = <<>>
    /\ lower_bound = 0
    /\ upper_bound = 0
    /\ step = 0
    /\ threads = 1
    /\ input_file = ""
    /\ input_length = 1
    /\ output_length = 1
    /\ commands = <<>>
    /\ jump = FALSE
    /\ bruteforceIsMem = FALSE
    /\ outputIsMem = FALSE
    /\ fill = 0
    /\ fault_budget = 0
    /\ target = "double"
    /\ hung = 0
    /\ Fresh

\* lines 32-36
ParseInput ==
    /\ argpc = "input"
    /\ bruteforceIsMem' = Location(args_input).isMem
    /\ bruteforce' = Location(args_input).name
    /\ argpc' = "output"
    /\ UNCHANGED <<args, filename, start, stop, output, lower_bound, upper_bound,
                   step, threads, input_file, input_length, output_length,
                   commands, jump, outputIsMem, env, points, mainpc, submitted,
                   work_queue, future, started, worker, sessions, printed,
                   plotted, faults>>

\* lines 37-41
ParseOutput ==
    /\ argpc = "output"
    /\ outputIsMem' = Location(args_output).isMem
    /\ output' = Location(args_output).name
    /\ argpc' = "range"
    /\ UNCHANGED <<args, filename, start, stop, bruteforce, lower_bound,
                   upper_bound, step, threads, input_file, input_length,
                   output_length, commands, jump, bruteforceIsMem, env, points,
                   mainpc, submitted, work_queue, future, started, worker,
                   sessions, printed, plotted, faults>>

\* lines 42-51: the range is parsed, or the run ends with the exception
ParseRange ==
    /\ argpc = "range"
    /\ LET parsed == ParsedRange(args_range) IN
         IF parsed.raises # ""
         THEN /\ argpc' = parsed.raises
              /\ UNCHANGED <<lower_bound, upper_bound, step>>
         ELSE /\ argpc' = "parsed"
              /\ lower_bound' = parsed.lower_bound
              /\ upper_bound' = parsed.upper_bound
              /\ step' = parsed.step
    /\ UNCHANGED <<args, filename, start, stop, bruteforce, output, threads,
                   input_file, input_length, output_length, commands, jump,
                   bruteforceIsMem, outputIsMem, env, points, mainpc, submitted,
                   work_queue, future, started, worker, sessions, printed,
                   plotted, faults>>

NextArgs == ParseInput \/ ParseOutput \/ ParseRange

SpecArgs == InitArgs /\ [][NextArgs]_vars

\* ------------------------------------------- the pool (lines 105-107)

Busy == {"open", "dor", "doo", "rip", "eip", "dbstart", "cmds", "w0", "wB",
         "drset", "dc", "read", "append"}

\* the pool's threads have all ended (or were never started)
Drained == \A w \in Threads : worker[w].pc \in {"unborn", "exited"}

\* executor.map submits the next item of the range: the work item is queued
\* and a thread is started while the pool has fewer than max_workers threads
Submit ==
    /\ mainpc = "map"
    /\ submitted < Len(Values)
    /\ submitted' = submitted + 1
    /\ work_queue' = Append(work_queue, submitted + 1)
    /\ LET num_threads == Cardinality({w \in Threads : worker[w].pc # "unborn"}) IN
         IF num_threads < threads
         THEN worker' = [worker EXCEPT ![num_threads + 1].pc = "idle"]
         ELSE worker' = worker
    /\ UNCHANGED <<config, points, mainpc, future, started, sessions, env,
                   printed, plotted, faults>>

\* executor.map has returned (its result iterator is dropped) and the with
\* block is left: shutdown(wait=True)
Shutdown ==
    /\ mainpc = "map"
    /\ step # 0
    /\ submitted = Len(Values)
    /\ mainpc' = "join"
    /\ UNCHANGED <<config, points, submitted, work_queue, future, started,
                   worker, sessions, env, printed, plotted, faults>>

\* range() arg 3 must not be zero: line 107 raises ValueError before anything
\* is submitted, the with block shuts the empty pool down and the run ends
RangeRaises ==
    /\ mainpc = "map"
    /\ step = 0
    /\ mainpc' = "error"
    /\ UNCHANGED <<config, points, submitted, work_queue, future, started,
                   worker, sessions, env, printed, plotted, faults>>

\* faulty variant: shutdown(wait=False), the main thread goes on at once
NoWait == TRUE

\* shutdown(wait=True) returns once every thread of the pool has ended
JoinGuard == Drained

Join ==
    /\ mainpc = "join"
    /\ JoinGuard
    /\ mainpc' = "print"
    /\ UNCHANGED <<config, points, submitted, work_queue, future, started,
                   worker, sessions, env, printed, plotted, faults>>

\* the work item a thread takes next from the queue
NextItem(q) == Head(q)
RestItems(q) == Tail(q)

\* an idle thread takes the next work item and calls execute(value)
Take(w) ==
    /\ worker[w].pc = "idle"
    /\ work_queue # <<>>
    /\ LET i == NextItem(work_queue) IN
        /\ work_queue' = RestItems(work_queue)
        /\ future' = [future EXCEPT ![i] = "RUNNING"]
        /\ started' = Append(started, Values[i])
        /\ worker' = [worker EXCEPT ![w] =
              [pc |-> "open", item |-> i, value |-> Values[i], r |-> 0, result |-> 0]]
    /\ UNCHANGED <<config, points, mainpc, submitted, sessions, env,
                   printed, plotted, faults>>

\* an idle thread ends once the pool is shut down and the queue is empty
Exit(w) ==
    /\ worker[w].pc = "idle"
    /\ work_queue = <<>>
    /\ mainpc = "join"
    /\ worker' = [worker EXCEPT ![w].pc = "exited"]
    /\ UNCHANGED <<config, points, mainpc, submitted, work_queue, future,
                   started, sessions, env, printed, plotted, faults>>

\* ------------------------------------------- execute(value), lines 64-103

\* the thread's session sends one command and moves on
Step(w, effect, logged, next) ==
    /\ sessions' = [sessions EXCEPT ![worker[w].r] = Logged(effect, logged)]
    /\ worker' = [worker EXCEPT ![w].pc = next]
    /\ UNCHANGED <<config, points, mainpc, submitted, work_queue, future,
                   started, env, printed, plotted, faults>>

\* the session the thread's local r refers to
R(w) == sessions[worker[w].r]

\* faulty variant: one module-level session that every call opens and drives
SharedSession(w) == 1

\* the session r2pipe.open gives the call: a new one, the call's own
SessionOf(w) == worker[w].item

\* line 67: r = r2pipe.open(filename, flags=['d', 'A'])
Open(w) ==
    /\ worker[w].pc = "open"
    /\ sessions' = [sessions EXCEPT ![SessionOf(w)] = NewSession]
    /\ worker' = [worker EXCEPT ![w].r = SessionOf(w),
                                ![w].pc = IF input_file # "" THEN "dor" ELSE "doo"]
    /\ UNCHANGED <<config, points, mainpc, submitted, work_queue, future,
                   started, env, printed, plotted, faults>>

\* line 71: r.cmd('dor stdin=' + input_file)
Dor(w) ==
    /\ worker[w].pc = "dor"
    /\ Step(w, R(w), <<"dor">>, "doo")

\* faulty variant: the jump flag is not looked at
IgnoreJump == "dbstart"

\* line 75: if(jump)
AfterDoo == IF jump THEN "rip" ELSE "dbstart"

\* line 74: r.cmd('doo;db ' + stop)
Doo(w) ==
    /\ worker[w].pc = "doo"
    /\ Step(w, R(w), <<"doo", "db stop">>, AfterDoo)

\* faulty variant: the value is injected right after the start position, the
\* pre-commands of line 82 never run before it
InjectAfterStart == IF bruteforceIsMem THEN "w0" ELSE "drset"

\* what follows the start position of lines 75-79: the pre-commands
AfterStart == "cmds"

\* line 76: r.cmd('dr rip = ' + start)
JumpRip(w) ==
    /\ worker[w].pc = "rip"
    /\ Step(w, R(w), <<"dr rip">>, "eip")

\* line 77: r.cmd('dr eip = ' + start)
JumpEip(w) ==
    /\ worker[w].pc = "eip"
    /\ Step(w, R(w), <<"dr eip">>, AfterStart)

\* line 79: r.cmd('db ' + start + ";dc")
DbStart(w) ==
    /\ worker[w].pc = "dbstart"
    /\ Step(w, R(w), <<"db start", "dc">>, AfterStart)

\* what follows the pre-commands: the injection of lines 85-90
AfterCmds == IF bruteforceIsMem THEN "w0" ELSE "drset"

\* line 82: r.cmd(commands), the debugger running them in the order given
Cmds(w) ==
    /\ worker[w].pc = "cmds"
    /\ Step(w, R(w), commands, AfterCmds)

\* faulty variant: the decimal digits of str(value) sent after the 0x
decimal_value(value) == ToDigits(value, 10)

\* line 86: hex_value = hex(value)[2:]
hex_value(value) == ToDigits(value, 16)

\* line 87: r.cmd('w0 ' + input_length + " @" + bruteforce)
W0(w) ==
    /\ worker[w].pc = "w0"
    /\ Step(w, W0Effect(R(w), input_length), <<"w0">>, "wB")

\* line 88: r.cmd('wB 0x' + hex_value + " @" + bruteforce)
WB(w) ==
    /\ worker[w].pc = "wB"
    /\ Step(w, WBEffect(R(w), hex_value(worker[w].value)), <<"wB">>, "dc")

\* line 90: r.cmd('dr ' + bruteforce + ' = ' + str(value))
DrSet(w) ==
    /\ worker[w].pc = "drset"
    /\ Step(w, DrSetEffect(R(w), ToDigits(worker[w].value, 10)), <<"dr set">>, "dc")

\* line 93: r.cmd('dc')
Dc(w) ==
    /\ worker[w].pc = "dc"
    /\ worker[w].item # hung
    /\ Step(w, DcEffect(R(w)), <<"dc">>, "read")

\* lines 98 and 100: the reply parsed by int(..., 16)
Result(reply) == FromDigits(reply, 16)

\* line 98: result = int(r.cmd('pv' + output_length + ' @' + output), 16)
ReadMem(w) ==
    /\ worker[w].pc = "read"
    /\ outputIsMem
    /\ sessions' = [sessions EXCEPT ![worker[w].r] = Logged(@, <<"pv">>)]
    /\ worker' = [worker EXCEPT ![w].pc = "append",
                                ![w].result = Result(PvReply(R(w), output_length))]
    /\ UNCHANGED <<config, points, mainpc, submitted, work_queue, future,
                   started, env, printed, plotted, faults>>

\* line 100: result = int(r.cmd('dr ' + output).strip(), 16)
ReadReg(w) ==
    /\ worker[w].pc = "read"
    /\ ~outputIsMem
    /\ sessions' = [sessions EXCEPT ![worker[w].r] = Logged(@, <<"dr get">>)]
    /\ worker' = [worker EXCEPT ![w].pc = "append",
                                ![w].result = Result(DrReply(R(w)))]
    /\ UNCHANGED <<config, points, mainpc, submitted, work_queue, future,
                   started, env, printed, plotted, faults>>

\* faulty variant: points = [(value, result)], the list is rebound
Overwritten(list, p) == <<p>>

\* list.append of line 103, one atomic operation of the interpreter
Appended(list, p) == Append(list, p)

\* faulty variant: an append that is a read of the list followed by a write of the
\* longer list, so that of two threads appending together one update is lost
LostUpdateAppend(w) ==
    /\ worker[w].pc = "append"
    /\ points' = IF \E x \in Threads \ {w} : worker[x].pc = "append"
                 THEN points
                 ELSE Appended(points, <<worker[w].value, worker[w].result>>)
    /\ future' = [future EXCEPT ![worker[w].item] = "FINISHED"]
    /\ worker' = [worker EXCEPT ![w].pc = "idle"]
    /\ UNCHANGED <<config, mainpc, submitted, work_queue, started, sessions,
                   env, printed, plotted, faults>>

\* line 103: points.append((value, result)); execute returns, the work item
\* sets its future's result and the thread waits for the next item
AppendPoint(w) ==
    /\ worker[w].pc = "append"
    /\ points' = Appended(points, <<worker[w].value, worker[w].result>>)
    /\ future' = [future EXCEPT ![worker[w].item] = "FINISHED"]
    /\ worker' = [worker EXCEPT ![w].pc = "idle"]
    /\ UNCHANGED <<config, mainpc, submitted, work_queue, started, sessions,
                   env, printed, plotted, faults>>

Raised == {i \in DOMAIN future : future[i] = "EXCEPTION"}

\* faulty variant: the item that raised is queued again
Requeued(q, i) == Append(q, i)

\* what a work item does with an exception of execute(): it is stored in
\* the item's future; nothing is queued again
AfterRaise(q, i) == q

\* where execute() can raise: r2pipe.open (line 67) when the target cannot
\* be launched, and int() (lines 98, 100) when the reply is no number, as
\* after a breakpoint that was not reached; r.cmd() returns the reply of a
\* rejected command and raises nothing
RaisePcs == {"open", "read"}

\* faulty variant: the failed call never returns, its thread stays in it
RaiseBlocks(w) ==
    /\ worker[w].pc \in RaisePcs
    /\ Cardinality(Raised) < fault_budget
    /\ future' = [future EXCEPT ![worker[w].item] = "EXCEPTION"]
    /\ worker' = [worker EXCEPT ![w].pc = "blocked"]
    /\ UNCHANGED <<config, points, mainpc, submitted, work_queue, started,
                   sessions, env, printed, plotted, faults>>

\* execute() is left by an exception, which the work item stores in its
\* future; the thread waits for the next item
Raise(w) ==
    /\ worker[w].pc \in RaisePcs
    /\ Cardinality(Raised) < fault_budget
    /\ future' = [future EXCEPT ![worker[w].item] = "EXCEPTION"]
    /\ work_queue' = AfterRaise(work_queue, worker[w].item)
    /\ worker' = [worker EXCEPT ![w].pc = "idle"]
    /\ UNCHANGED <<config, points, mainpc, submitted, started, sessions,
                   env, printed, plotted, faults>>

\* ------------------------------------------- the report (lines 109-118)

\* line 111: print(sorted(points, key=lambda x: x[0]))
PrintPoints ==
    /\ mainpc = "print"
    /\ printed' = SortedByInput(points)
    /\ mainpc' = "plot"
    /\ UNCHANGED <<config, points, submitted, work_queue, future, started,
                   worker, sessions, env, plotted, faults>>

\* lines 115-118: xy = zip(*points); plt.scatter(*xy). With no point zip
\* yields nothing and scatter() is called without x and y: a TypeError
Plot ==
    /\ mainpc = "plot"
    /\ IF points = <<>>
       THEN /\ mainpc' = "error"
            /\ plotted' = plotted
       ELSE /\ mainpc' = "done"
            /\ plotted' = <<[i \in 1..Len(points) |-> points[i][1]],
                            [i \in 1..Len(points) |-> points[i][2]]>>
    /\ UNCHANGED <<config, points, submitted, work_queue, future, started,
                   worker, sessions, env, printed, faults>>

Next ==
    \/ Submit
    \/ Shutdown
    \/ RangeRaises
    \/ Join
    \/ PrintPoints
    \/ Plot
    \/ \E w \in Threads :
        \/ Take(w)
        \/ Exit(w)
        \/ Open(w)
        \/ Dor(w)
        \/ Doo(w)
        \/ JumpRip(w)
        \/ JumpEip(w)
        \/ DbStart(w)
        \/ Cmds(w)
        \/ W0(w)
        \/ WB(w)
        \/ DrSet(w)
        \/ Dc(w)
        \/ ReadMem(w)
        \/ ReadReg(w)
        \/ AppendPoint(w)
        \/ Raise(w)

Spec == Init /\ [][Next]_vars

\* --------------------------------- runs in which a resume may not return

\* the runs the sweep is checked for when the target may loop for one value:
\* every driver path on two values with a debugger that may fail, the sweep
\* family with one that does not, and a range with step 0
HangConfigs ==
    ProtocolConfigs
    \cup {[c EXCEPT !.fault_budget = 0] : c \in SweepConfigs}
    \cup {c \in InvalidConfigs : c.step = 0}

\* for at most one item of the range the 'dc' of line 93 never returns
InitHang ==
    /\ \E c \in HangConfigs : Configured(c)
    /\ hung \in 0..Len(Values)
    /\ Fresh

\* the steps of the main thread and of one thread of the pool
MainStep == Submit \/ Shutdown \/ RangeRaises \/ Join \/ PrintPoints \/ Plot
WorkerStep(w) ==
    \/ Take(w) \/ Exit(w) \/ Open(w) \/ Dor(w) \/ Doo(w) \/ JumpRip(w)
    \/ JumpEip(w) \/ DbStart(w) \/ Cmds(w) \/ W0(w) \/ WB(w) \/ DrSet(w)
    \/ Dc(w) \/ ReadMem(w) \/ ReadReg(w) \/ AppendPoint(w) \/ Raise(w)

\* the operating system schedules every thread that can take a step
Fairness == WF_vars(MainStep) /\ \A w \in Threads : WF_vars(WorkerStep(w))

SpecFair == InitHang /\ [][Next]_vars /\ Fairness

\* ------------------------------------------------------------ claims

\* the main thread has left the with block of lines 106-107
Swept == mainpc \in {"print", "plot", "done", "error"}

\* the points recorded for the input value v
PointsOf(v) == {k \in 1..Len(points) : points[k][1] = v}

PointSet == {points[k] : k \in 1..Len(points)}

OpenSessions == {i \in DOMAIN sessions : sessions[i].open}

\* C1: when no driver call fails, the list of points after the sweep holds
\* exactly one point for each value of the range, for every pool size and
\* every interleaving of the appends: none lost, none duplicated.
C1_OnePointPerValue ==
    (Swept /\ Raised = {}) =>
        /\ Len(points) = Len(Values)
        /\ \A i \in 1..Len(Values) : Cardinality(PointsOf(Values[i])) = 1

\* C1 witness: a sweep on the largest pool has ended without a failure and
\* its appends came in another order than the range's
C1_Witness ==
    /\ mainpc = "done"
    /\ Raised = {}
    /\ threads = MaxThreads
    /\ Len(Values) >= 3
    /\ \E k \in 1..(Len(points) - 1) : points[k][1] > points[k + 1][1]

\* C2: when the driver fails for one value and succeeds for the others, the
\* sweep completes, the points of all other values are in the list and a
\* fault is recorded for the failing value.
C2_FaultIsolatedAndRecorded ==
    Swept =>
        /\ \A i \in 1..Len(Values) :
              future[i] = "FINISHED" => Cardinality(PointsOf(Values[i])) = 1
        /\ \A i \in Raised : Values[i] \in faults

\* C3: the main thread reads the points (line 111, then line 115) only once
\* every submitted value has appended its point or raised and every thread
\* of the pool has ended; nothing is appended after the first read.
C3_ReadAfterDrain ==
    Swept =>
        /\ Drained
        /\ work_queue = <<>>
        /\ \A i \in 1..Len(Values) : future[i] \in {"FINISHED", "EXCEPTION"}
        /\ mainpc # "print" => printed = SortedByInput(points)

\* C3 witness: the main thread has printed the points of a sweep that ran on
\* two threads and is about to plot them
C3_Witness ==
    /\ mainpc = "plot"
    /\ threads >= 2
    /\ Len(points) >= 2
    /\ Raised # {}

\* C4: a session is open only while the driver invocation that opened it is
\* running: every exit of execute(), by return or by exception, closes it.
C4_SessionsReleased ==
    \A i \in OpenSessions :
        \E w \in Threads : worker[w].pc \in Busy /\ worker[w].r = i

\* C5: at most N sessions are open at any time, N the pool size.
C5_OpenSessionsBounded == Cardinality(OpenSessions) <= threads

\* C6: execute() is called once for each value of the range and for nothing
\* else: never twice for a value (no retry after a failure), for every value
\* even when another one failed, and a value has at most one point.
C6_StartedOncePerValue ==
    /\ \A k, l \in 1..Len(started) : k # l => started[k] # started[l]
    /\ \A k \in 1..Len(started) : \E i \in 1..Len(Values) : started[k] = Values[i]
    /\ Swept => \A i \in 1..Len(Values) : \E k \in 1..Len(started) : started[k] = Values[i]
    /\ \A i \in 1..Len(Values) : Cardinality(PointsOf(Values[i])) <= 1

\* C6 witness: a sweep of three values or more in which one value raised
\* has ended
C6_Witness ==
    /\ Swept
    /\ Raised # {}
    /\ Len(Values) >= 3
    /\ Len(started) = Len(Values)

\* the commands of one driver invocation, in the order of lines 67-100
Protocol ==
    <<"open">>
    \o (IF input_file # "" THEN <<"dor">> ELSE <<>>)
    \o <<"doo", "db stop">>
    \o (IF jump THEN <<"dr rip", "dr eip">> ELSE <<"db start", "dc">>)
    \o commands
    \o (IF bruteforceIsMem THEN <<"w0", "wB">> ELSE <<"dr set">>)
    \o <<"dc">>
    \o (IF outputIsMem THEN <<"pv">> ELSE <<"dr get">>)

\* C7: the commands a session has received are always an initial part of:
\* open; stdin redirect if configured; restart and stop breakpoint; start
\* position; the pre-commands in their order; injection; resume; read. A
\* value that produced a point has sent all of them.
C7_ProtocolOrder ==
    \A i \in DOMAIN sessions :
        /\ Len(sessions[i].log) <= Len(Protocol)
        /\ sessions[i].log = SubSeq(Protocol, 1, Len(sessions[i].log))
        /\ future[i] = "FINISHED" => sessions[i].log = Protocol

\* C7 witness: a value has produced its point in a run with a stdin
\* redirect, the jump and two pre-commands
C7_Witness ==
    /\ input_file # ""
    /\ jump
    /\ Len(commands) = 2
    /\ \E i \in DOMAIN future : future[i] = "FINISHED"

\* C8: with a memory input of width W, a value V >= 2^(8W) is never
\* injected: its invocation fails with a width error before the write, no
\* point is recorded for it, and no byte beyond the W cleared ones changes;
\* the values below 2^(8W) succeed (for [250,260,1] and W = 1: 250..255
\* succeed and 256..259 fail, for W >= 2 all succeed).
C8_WidthChecked ==
    bruteforceIsMem =>
        /\ \A w \in Threads :
              worker[w].pc \in {"dc", "read", "append"}
                  => worker[w].value < Pow(256, input_length)
        /\ \A k \in 1..Len(points) : points[k][1] < Pow(256, input_length)
        /\ \A i \in OpenSessions : \A b \in (input_length + 1)..WordBytes :
              sessions[i].mem[b] = fill
        /\ (Swept /\ fault_budget = 0) =>
              \A i \in 1..Len(Values) :
                  future[i] = (IF Values[i] < Pow(256, input_length)
                               THEN "FINISHED" ELSE "EXCEPTION")

\* C9: for a value V below 2^(8W), W bytes cleared and V written at an
\* address (lines 86-88), then W bytes read back from that address (line 98)
\* give V again.
C9_RoundTrip ==
    \A w \in Threads :
        (/\ bruteforceIsMem /\ outputIsMem /\ target = "echo"
         /\ input_length = output_length
         /\ worker[w].value < Pow(256, input_length))
        => /\ worker[w].pc = "dc"
                => LittleEndian(R(w).mem, input_length) = worker[w].value
           /\ worker[w].pc = "append" => worker[w].result = worker[w].value

\* C9 witness: a two-byte value written over set bytes has been read back
C9_Witness ==
    \E w \in Threads :
        /\ bruteforceIsMem /\ outputIsMem /\ target = "echo"
        /\ fill = 255
        /\ input_length = 2 /\ output_length = 2
        /\ worker[w].value >= 256
        /\ worker[w].pc = "append"

\* C10: for the target out = 2 * in with registers as input and output, a
\* sweep without failure ends with exactly the points (v, 2v), v in the
\* range, for every pool size; two running invocations never drive the same
\* session. For the range [0,10,2]: (0,0), (2,4), (4,8), (6,12), (8,16).
C10_PointsOfTarget ==
    /\ \A w, x \in Threads :
          (w # x /\ worker[w].r # 0 /\ worker[w].pc \in Busy
                 /\ worker[x].r # 0 /\ worker[x].pc \in Busy)
              => worker[w].r # worker[x].r
    /\ (Swept /\ Raised = {} /\ ~bruteforceIsMem /\ ~outputIsMem
              /\ target = "double") =>
          /\ PointSet = {<<Values[i], 2 * Values[i]>> : i \in 1..Len(Values)}
          /\ (lower_bound = 0 /\ upper_bound = 10 /\ step = 2) =>
                PointSet = {<<0, 0>>, <<2, 4>>, <<4, 8>>, <<6, 12>>, <<8, 16>>}

\* C10 witness: the sweep of [0,10,2] has ended on the largest pool
C10_Witness ==
    /\ mainpc = "done"
    /\ lower_bound = 0 /\ upper_bound = 10 /\ step = 2
    /\ threads = MaxThreads
    /\ Len(points) = 5

\* C11: a range text "[lower,upper]" or "[lower,upper,step]" with lower < upper
\* and step > 0 is swept as the sequence that starts at lower, grows by step
\* from element to element, stays below upper and has ceil((upper-lower)/step)
\* elements; a text without a step is swept with step 1.
C11_RangeExpansion ==
    \A l \in Lowers, u \in -1..MaxUpper, s \in 1..MaxStep, ws \in BOOLEAN :
        (argpc = "parsed" /\ args_range = RangeText(l, u, s, ws) /\ l < u) =>
            LET st == IF ws THEN s ELSE 1 IN
            /\ lower_bound = l /\ upper_bound = u /\ step = st
            /\ Values[1] = l
            /\ \A k \in 1..(Len(Values) - 1) : Values[k + 1] = Values[k] + st
            /\ \A k \in 1..Len(Values) : Values[k] < u
            /\ Len(Values) = (u - l + st - 1) \div st

\* the range [0,5,2], whose length is not a multiple of its step, was parsed
\* and expands to 0, 2, 4
C11_Witness ==
    /\ argpc = "parsed"
    /\ args_range = RangeText(0, 5, 2, TRUE)
    /\ Values = <<0, 2, 4>>

\* the range the spec calls invalid
InvalidRange == lower_bound >= upper_bound \/ step <= 0

\* C12: a run whose range has lower >= upper or step <= 0 is rejected before
\* any work: it never enters the sweep or the report, no value is handed to
\* execute() and no debugging session is opened.
C12_InvalidRangeRejected ==
    InvalidRange =>
        /\ started = <<>>
        /\ OpenSessions = {}
        /\ mainpc \in {"map", "error"}

\* the inputs of a sequence of points, and the order the reporter shall keep
Inputs(ps) == [k \in 1..Len(ps) |-> ps[k][1]]
Ascending(xs) == \A k \in 1..(Len(xs) - 1) : xs[k] <= xs[k + 1]
PrintedAscending ==
    mainpc \in {"plot", "done", "error"} =>
        /\ Ascending(Inputs(printed))
        /\ Len(printed) = Len(points)
        /\ {printed[k] : k \in 1..Len(printed)} = PointSet

\* C13: whatever order the workers complete in, the printed points and the
\* x values handed to the plot (with their y values) are in ascending order
\* of the input value.
C13_ReportOrdered ==
    /\ PrintedAscending
    /\ mainpc = "done" =>
          /\ Ascending(plotted[1])
          /\ \A k \in 1..Len(printed) :
                printed[k] = <<plotted[1][k], plotted[2][k]>>

\* the three kinds of descriptor the Location Parser tells apart
Chars(text) == {text[k] : k \in 1..Len(text)}
BareName(text) == text # <<>> /\ Chars(text) \cap {"[", "]"} = {}
Unterminated(text) == StartsWithM(text) /\ "]" \notin Chars(text)
InputParsed == argpc # "input"
BareNameIsRegister ==
    (InputParsed /\ BareName(args_input)) =>
        ~bruteforceIsMem /\ bruteforce = args_input
BracketedIsMemory ==
    \A expr \in {InputAddress, InputName, <<>>} :
        (InputParsed /\ args_input = <<"m", "[">> \o expr \o <<"]">>) =>
            bruteforceIsMem /\ bruteforce = expr

\* C14: a bare name is the register of that name, m[<expr>] is the memory
\* location <expr> kept verbatim, and a descriptor that starts with m[ and has
\* no closing bracket ends the run with InvalidLocationError instead of being
\* taken as a register.
C14_LocationParsed ==
    /\ BareNameIsRegister
    /\ BracketedIsMemory
    /\ (InputParsed /\ Unterminated(args_input)) =>
          /\ argpc = "InvalidLocationError"
          /\ ~(~bruteforceIsMem /\ bruteforce = args_input)

\* where a command log holds one of the given commands
At(log, cs) == {k \in 1..Len(log) : log[k] \in cs}
First(ks) == CHOOSE k \in ks : \A j \in ks : k <= j
Last(ks) == CHOOSE k \in ks : \A j \in ks : j <= k
InjectionCommands == {"w0", "wB", "dr set"}
ReadCommands == {"pv", "dr get"}

\* how the session was brought to the start address before its injection
StartPositioned(log) ==
    LET before == 1..(First(At(log, InjectionCommands)) - 1)
        sent(cs) == At(log, cs) \cap before
    IN IF jump
       THEN /\ Cardinality(sent({"dr rip"})) = 1
            /\ Cardinality(sent({"dr eip"})) = 1
            /\ sent({"db start", "dc"}) = {}
       ELSE /\ Cardinality(sent({"db start"})) = 1
            /\ Cardinality(sent({"dc"})) = 1
            /\ First(sent({"db start"})) < First(sent({"dc"}))
            /\ \A k \in sent({commands[j] : j \in 1..Len(commands)}) :
                  First(sent({"dc"})) < k
            /\ sent({"dr rip", "dr eip"}) = {}

\* one resume lies between the last injection command and the read
ResumedOnce(log) ==
    /\ At(log, InjectionCommands) # {}
    /\ LET injected == Last(At(log, InjectionCommands))
           read == First(At(log, ReadCommands))
       IN /\ injected < read
          /\ Cardinality({k \in At(log, {"dc"}) : injected < k /\ k < read}) = 1

\* C15: with the jump flag the session gets the instruction pointer set (rip
\* and eip) and neither a start breakpoint nor a resume before the value is
\* injected; without it the session gets a breakpoint at start and one resume
\* before the pre-commands and the injection. In both modes exactly one
\* resume lies between the injection and the read of the output.
C15_StartPositioning ==
    \A i \in DOMAIN sessions :
        /\ At(sessions[i].log, InjectionCommands) # {}
              => StartPositioned(sessions[i].log)
        /\ At(sessions[i].log, ReadCommands) # {}
              => ResumedOnce(sessions[i].log)

\* a session of a run with the jump flag and pre-commands has read its output
C15_Witness ==
    /\ jump
    /\ commands # <<>>
    /\ \E i \in DOMAIN sessions : At(sessions[i].log, ReadCommands) # {}

\* C16: if the resume for one value never returns, every other value of the
\* range is still handed to execute() and its point is appended, for every
\* pool size (in a run where the debugger fails for no value).
C16_OthersProduce ==
    \A i \in 1..MaxValues :
        (hung # 0 /\ fault_budget = 0 /\ i \in DOMAIN future /\ i # hung)
            => <>(i \in DOMAIN future /\ future[i] = "FINISHED")

\* the run is over: every value finished or failed, every thread of the pool
\* has ended and the reporter has printed the points
SweepOver ==
    /\ mainpc \in {"done", "error"}
    /\ Drained
    /\ \A i \in DOMAIN future : future[i] \in {"FINISHED", "EXCEPTION"}
    /\ printed = SortedByInput(points)

\* C17: when every debugger command returns and every thread that can take a
\* step is scheduled, the sweep ends: every value finishes or fails, the
\* pool drains and the reporter runs.
C17_SweepTerminates == (hung = 0) => <>SweepOver

\* a run without a hanging resume is over, one value failed and another
\* produced its point
C17_Witness ==
    /\ hung = 0
    /\ SweepOver
    /\ Raised # {}
    /\ points # <<>>

\* the configuration every driver invocation reads
SessionConfiguration ==
    <<filename, start, stop, bruteforce, bruteforceIsMem, output, outputIsMem,
      input_length, output_length, commands, input_file, jump>>

\* C18: no step of the sweep changes the session configuration (or any other
\* parsed argument); a step changes the result list only by appending the
\* point (value, output) of the invocation that takes the step, so no point
\* is removed or altered; and a step of a pool thread changes nothing else
\* the main thread shares with it.
C18_DriverFrame ==
    [][ /\ SessionConfiguration' = SessionConfiguration
        /\ config' = config
        /\ \/ points' = points
           \/ \E w \in Threads :
                /\ worker[w].pc = "append"
                /\ worker'[w].pc # "append"
                /\ points' = Append(points, <<worker[w].value, worker[w].result>>)
        /\ worker' # worker => UNCHANGED <<mainpc, printed, plotted>> ]_vars

\* a point is in the list while another invocation is between its injection
\* and its read
C18_Witness ==
    /\ points # <<>>
    /\ \E w \in Threads : worker[w].pc \in {"dc", "read"}

====
